---- MODULE Spec2Model ----
(***************************************************************************)
(* Model of VABCPartitionWriter (payload_consumer/vabc_partition_writer.cc) *)
(* and of its collaborators as the writer uses them: the prefs store that  *)
(* holds kPrefsUpdateStatePartitionNextOperation, the COW writer, the      *)
(* source file descriptor, and the loop that replays the partition's       *)
(* operations.  checkpoint and log survive a crash; everything else is the *)
(* state of one VABCPartitionWriter object and of its caller.              *)
(***************************************************************************)
EXTENDS Integers, Sequences, FiniteSets, TLC

\* Number of InstallOperations of the partition update.
NumOps == 3
\* Longest sequence ConvertToCowOperations returns.
MaxCow == 2
\* block_size_ of the partition, in bytes.
BlockSize == 2
\* Most collaborator calls that fail in one run.
MaxFaults == 1

VARIABLES
  checkpoint,      \* prefs: kPrefsUpdateStatePartitionNextOperation (persistent)
  log,             \* the COW image: the records the COW writer accepted (persistent)
  converted,       \* what ConvertToCowOperations returns for this partition
  pc,              \* where the object and the call in progress are
  is_resume,       \* install_plan->is_resume of the Init in progress
  cow_writer,      \* cow_writer_: "null" or "open"
  cow_idx,         \* WriteAllCowOps: index of the next cow_op, 1-based
  buffer,          \* WriteAllCowOps: std::vector<uint8_t> buffer(block_size)
  write_ok,        \* what WriteAllCowOps returned: "none", "true", "false"
  calls,           \* collaborator calls made by the call in progress or last made
  retval,          \* [fn, ok] of the last call that returned, fn = "none" before
  next_op,         \* replay loop: index of the operation being applied
  phase,           \* replay loop: "write", "checkpoint", "flush", "done", "stopped"
  finalize_count,  \* Finalize() calls made on this object's COW writer
  completed,       \* operations whose CheckpointUpdateProgress/Flush pair returned
                   \* since Init last stored 0; -1 while no Init has stored 0 for
                   \* the present COW image (history)
  goal,            \* completed, as it stood when the Init in progress was called
  ended,           \* how the previous object ended: "never", "teardown", "crash",
                   \* or "crash_copy": a crash after Init stored -1 and before it
                   \* stored 0
  faults,          \* collaborator calls that have failed so far
  other            \* the writer of another partition in the same update
                   \* session, on the same prefs store: [pc, next_op]

vars == <<checkpoint, log, converted, pc, is_resume, cow_writer, cow_idx, buffer,
          write_ok, calls, retval, next_op, phase, finalize_count, completed,
          goal, ended, faults, other>>

(***************************************************************************)
(* Records of the COW image and primitive operations.                      *)
(***************************************************************************)
CopyOp(dst, src) == [type |-> "copy", a |-> dst, b |-> src, data |-> <<>>]
RawOp(dst, data, size) == [type |-> "raw", a |-> dst, b |-> size, data |-> data]
ZeroOp(start, num) == [type |-> "zero", a |-> start, b |-> num, data |-> <<>>]
LabelOp(label) == [type |-> "label", a |-> label, b |-> 0, data |-> <<>>]

CowOperation(op, src, dst) == [op |-> op, src_block |-> src, dst_block |-> dst]

\* The sequences ConvertToCowOperations may return: any sequence of at most
\* MaxCow CowCopy and CowReplace operations; the i-th of n reads source
\* block 10 + i and writes destination block n - i, so that every
\* destination block is written once and none in ascending order.
CowKinds(n) == [1 .. n -> {"CowCopy", "CowReplace"}]

ConvertToCowOperations ==
  UNION {{[i \in 1 .. n |-> CowOperation(k[i], 10 + i, n - i)] : k \in CowKinds(n)}
         : n \in 0 .. MaxCow}

\* Bytes the source holds at [offset, offset + count): byte k of the source
\* is k + 1, so that no byte equals the buffer's initial 0.
SourceBytes(offset, count) == [i \in 1 .. count |-> offset + i]

ZeroBuffer == [i \in 1 .. BlockSize |-> 0]

\* buffer after a read of n bytes at offset into buffer.data().
ReadInto(buf, offset, n) ==
  [i \in 1 .. BlockSize |-> IF i <= n THEN SourceBytes(offset, n)[i] ELSE buf[i]]

\* The partition's InstallOperations: ZERO operations with their
\* dst_extents, every third one a SOURCE_COPY.
Extent(start, num) == [start_block |-> start, num_blocks |-> num]

Operations(n) ==
  IF n % 3 = 2
  THEN [type |-> "SOURCE_COPY", dst_extents |-> <<Extent(4 * n, 1)>>]
  ELSE [type |-> "ZERO",
        dst_extents |-> IF n % 2 = 0
                        THEN <<Extent(4 * n, 1), Extent(4 * n + 2, 2)>>
                        ELSE <<Extent(4 * n, 2)>>]

(***************************************************************************)
(* The COW writer, as the writer relies on it.                             *)
(***************************************************************************)
HasLabel(l, label) == \E i \in 1 .. Len(l) : l[i] = LabelOp(label)

Labels(l) == {l[i].a : i \in {j \in 1 .. Len(l) : l[j].type = "label"}}

FirstLabelIndex(l, label) ==
  CHOOSE i \in 1 .. Len(l) :
    /\ l[i] = LabelOp(label)
    /\ \A j \in 1 .. (i - 1) : l[j] # LabelOp(label)

\* InitializeAppend(label): the COW writer retains all data before the label
\* (the label included) and drops what follows it.
RetainUpToLabel(l, label) == SubSeq(l, 1, FirstLabelIndex(l, label))

\* The records of l that are not labels.
RECURSIVE DataOf(_)
DataOf(l) ==
  IF l = <<>> THEN <<>>
  ELSE IF l[1].type = "label" THEN DataOf(Tail(l))
       ELSE <<l[1]>> \o DataOf(Tail(l))

Call(name, args, ok) == [call |-> name, args |-> args, ok |-> ok]

Returned(fn, ok) == [fn |-> fn, ok |-> ok]

\* One collaborator call of the step fails (failed), or none does.
Fault(failed) ==
  /\ failed => faults < MaxFaults
  /\ faults' = IF failed THEN faults + 1 ELSE faults

(***************************************************************************)
(* Initial state: no object exists, the COW image is empty and the pref    *)
(* holds the value the destructor leaves behind.                           *)
(***************************************************************************)
Init ==
  /\ checkpoint = -1
  /\ log = <<>>
  /\ converted \in ConvertToCowOperations
  /\ pc = "none"
  /\ is_resume = FALSE
  /\ cow_writer = "null"
  /\ cow_idx = 1
  /\ buffer = ZeroBuffer
  /\ write_ok = "none"
  /\ calls = <<>>
  /\ retval = Returned("none", TRUE)
  /\ next_op = 0
  /\ phase = "stopped"
  /\ finalize_count = 0
  /\ completed = -1
  /\ goal = -1
  /\ ended = "never"
  /\ faults = 0
  /\ other = [pc |-> "none", next_op |-> 0]

(***************************************************************************)
(* The replay loop that drives the writer: for each operation, its writes, *)
(* then CheckpointUpdateProgress(next operation), then Flush().            *)
(***************************************************************************)
\* Where the loop stands when operation n is the next one to apply.
ReplayAt(n) == IF n < NumOps THEN "write" ELSE "done"

\* The argument the loop gives CheckpointUpdateProgress once all writes of
\* operation n are issued.
NextOpIndex(n) == n + 1

\* After the writes of an operation the loop calls CheckpointUpdateProgress,
\* and stops calling the writer when a write failed.
ReplayAfterWrites(ok) == IF ok THEN "checkpoint" ELSE "stopped"

\* After CheckpointUpdateProgress the loop calls Flush for that boundary.
ReplayAfterCheckpoint == "flush"

\* The operation the loop resumes with when Init appended at stored.
ReplayResumeAt(stored) == stored

(***************************************************************************)
(* VABCPartitionWriter::Init                                                *)
(***************************************************************************)
\* Line 77 with <= for <.
NeedsInitializeOffByOne(stored) == stored <= 0

\* Line 77: a stored value below 0 means the SOURCE_COPY phase never finished.
NeedsInitialize(stored) == stored < 0

\* A new object, before Init has run: the object's own state.
FreshObject ==
  /\ cow_idx' = 1
  /\ buffer' = ZeroBuffer
  /\ write_ok' = "none"
  /\ finalize_count' = 0

\* Init returning true whatever ok is.
InitReturnsTrue(ok, start) ==
  /\ pc' = "ready"
  /\ retval' = [fn |-> "Init", ok |-> TRUE]
  /\ next_op' = start
  /\ phase' = IF start < NumOps THEN "write" ELSE "done"

\* Init returns ok: the caller starts, or gives up on, the replay loop.
InitReturns(ok, start) ==
  /\ pc' = "ready"
  /\ retval' = Returned("Init", ok)
  /\ next_op' = start
  /\ phase' = IF ok THEN ReplayAt(start) ELSE "stopped"

\* Lines 57-85: the checks, OpenCowWriter and the choice between Initialize()
\* and InitializeAppend(next_op).  fail names the step that fails, if any.
InitOpen ==
  /\ pc \in {"none", "destroyed", "crashed"}
  /\ \E resume \in BOOLEAN, fail \in {"none", "plan", "base", "open", "get", "cow"} :
       /\ fail = "get" => resume
       /\ fail = "plan" => ~resume
       /\ Fault(fail # "none")
       /\ FreshObject
       /\ goal' = completed
       /\ is_resume' = resume
       /\ UNCHANGED <<checkpoint, converted, ended, other>>
       /\ LET base == <<Call("PartitionWriter::Init", <<>>, fail # "base")>>
              open == base \o <<Call("OpenCowWriter", <<>>, fail # "open")>>
              get  == open \o <<Call("GetInt64", <<>>, fail # "get")>>
          IN
          IF fail = "plan" THEN
            /\ calls' = <<>>
            /\ cow_writer' = "null"
            /\ InitReturns(FALSE, 0)
            /\ UNCHANGED <<log, completed>>
          ELSE IF fail = "base" THEN
            /\ calls' = base
            /\ cow_writer' = "null"
            /\ InitReturns(FALSE, 0)
            /\ UNCHANGED <<log, completed>>
          ELSE IF fail = "open" THEN
            /\ calls' = open
            /\ cow_writer' = "null"
            /\ InitReturns(FALSE, 0)
            /\ UNCHANGED <<log, completed>>
          ELSE IF resume /\ fail = "get" THEN
            /\ calls' = get
            /\ cow_writer' = "open"
            /\ InitReturns(FALSE, 0)
            /\ UNCHANGED <<log, completed>>
          ELSE IF resume /\ ~NeedsInitialize(checkpoint) THEN
            \* InitializeAppend(next_op) fails when the image holds no such label.
            LET ok == fail # "cow" /\ HasLabel(log, checkpoint) IN
            /\ calls' = get \o <<Call("InitializeAppend", <<checkpoint>>, ok)>>
            /\ cow_writer' = "open"
            /\ log' = IF ok THEN RetainUpToLabel(log, checkpoint) ELSE log
            /\ InitReturns(ok, IF ok THEN ReplayResumeAt(checkpoint) ELSE 0)
            /\ UNCHANGED completed
          ELSE
            LET ok == fail # "cow" IN
            /\ calls' = (IF resume THEN get ELSE open)
                          \o <<Call("Initialize", <<>>, ok)>>
            /\ cow_writer' = "open"
            /\ log' = IF ok THEN <<>> ELSE log
            /\ completed' = IF ok THEN -1 ELSE completed
            /\ IF ok
               THEN /\ pc' = "set_m1"
                    /\ UNCHANGED <<retval, next_op, phase>>
               ELSE InitReturns(FALSE, 0)

\* Lines 88-93: SetInt64(..., -1), then ConvertToCowOperations.
InitSetMinusOne ==
  /\ pc = "set_m1"
  /\ \E ok \in BOOLEAN :
       /\ Fault(~ok)
       /\ calls' = calls \o <<Call("SetInt64", <<-1>>, ok)>>
                         \o (IF ok THEN <<Call("ConvertToCowOperations", <<>>, TRUE)>>
                                   ELSE <<>>)
       /\ IF ok
          THEN /\ checkpoint' = -1
               /\ pc' = IF Len(converted) = 0 THEN "label0" ELSE "write_cow"
               /\ write_ok' = IF Len(converted) = 0 THEN "true" ELSE "none"
               /\ UNCHANGED <<retval, next_op, phase>>
          ELSE /\ InitReturns(FALSE, 0)
               /\ UNCHANGED <<checkpoint, write_ok>>
  /\ cow_idx' = 1
  /\ buffer' = ZeroBuffer
  /\ UNCHANGED <<other, log, converted, is_resume, cow_writer, finalize_count, completed,
                 goal, ended>>

(***************************************************************************)
(* VABCPartitionWriter::WriteAllCowOps, one iteration of its loop a step.  *)
(***************************************************************************)
\* Line 121: the byte offset of the read for a CowReplace.
ReadOffset(cow_op, block_size) == cow_op.src_block * block_size

\* Line 123 without its second disjunct: only an empty read is refused.
ShortReadOnlyEmpty(bytes_read, block_size) == bytes_read <= 0

\* Line 123: the read is refused unless it filled the whole block.
ShortRead(bytes_read, block_size) == bytes_read <= 0 \/ bytes_read # block_size

\* Line 114: the record AddCopy(dst_block, src_block) asks for.
AddCopy(cow_op) == CopyOp(cow_op.dst_block, cow_op.src_block)

\* Lines 127-128: the record AddRawBlocks(dst_block, buffer.data(), block_size) asks for.
AddRawBlocks(cow_op, buf, block_size) == RawOp(cow_op.dst_block, buf, block_size)

\* The loop without its early returns: it goes on after a cow_op that failed.
CowOpDoneGoesOn(ok) ==
  IF cow_idx < Len(converted)
  THEN /\ cow_idx' = cow_idx + 1
       /\ write_ok' = "none"
       /\ pc' = "write_cow"
  ELSE /\ cow_idx' = cow_idx
       /\ write_ok' = IF ok THEN "true" ELSE "false"
       /\ pc' = "label0"

\* The loop goes on to the next cow_op, or WriteAllCowOps returns ok.  Line
\* 95 drops the return value: Init goes on to AddLabel(0) either way.
CowOpDone(ok) ==
  IF ok /\ cow_idx < Len(converted)
  THEN /\ cow_idx' = cow_idx + 1
       /\ write_ok' = "none"
       /\ pc' = "write_cow"
  ELSE /\ cow_idx' = cow_idx
       /\ write_ok' = IF ok THEN "true" ELSE "false"
       /\ pc' = "label0"

WriteCowOp ==
  /\ pc = "write_cow"
  /\ LET cow_op == converted[cow_idx] IN
     IF cow_op.op = "CowCopy" THEN
       \E ok \in BOOLEAN :
         /\ Fault(~ok)
         /\ calls' = Append(calls, Call("AddCopy", <<cow_op.dst_block, cow_op.src_block>>, ok))
         /\ log' = IF ok THEN Append(log, AddCopy(cow_op)) ELSE log
         /\ buffer' = buffer
         /\ CowOpDone(ok)
     ELSE
       \* PReadAll returns false, or true with bytes_read in 0 .. block_size.
       \E read_ok \in BOOLEAN, bytes_read \in 0 .. BlockSize, ok \in BOOLEAN :
         LET offset == ReadOffset(cow_op, BlockSize)
             got    == IF read_ok THEN bytes_read ELSE 0
             buf    == ReadInto(buffer, offset, got)
             read   == Call("PReadAll", <<offset, BlockSize, got>>, read_ok)
             whole  == read_ok /\ ~ShortRead(bytes_read, BlockSize)
         IN
         /\ ~read_ok => bytes_read = 0
         /\ ~whole => ok
         /\ Fault(~whole \/ ~ok)
         /\ buffer' = buf
         /\ IF whole
            THEN /\ calls' = calls \o <<read, Call("AddRawBlocks",
                                           <<cow_op.dst_block, buf, BlockSize>>, ok)>>
                 /\ log' = IF ok THEN Append(log, AddRawBlocks(cow_op, buf, BlockSize))
                                 ELSE log
                 /\ CowOpDone(ok)
            ELSE /\ calls' = Append(calls, read)
                 /\ log' = log
                 /\ CowOpDone(FALSE)
  /\ UNCHANGED <<other, checkpoint, converted, is_resume, cow_writer, retval, next_op, phase,
                 finalize_count, completed, goal, ended>>

\* Line 97: cow_writer_->AddLabel(0), its result dropped.
InitAddLabel ==
  /\ pc = "label0"
  /\ \E ok \in BOOLEAN :
       /\ Fault(~ok)
       /\ calls' = Append(calls, Call("AddLabel", <<0>>, ok))
       /\ log' = IF ok THEN Append(log, LabelOp(0)) ELSE log
  /\ pc' = "set_0"
  /\ UNCHANGED <<other, checkpoint, converted, is_resume, cow_writer, cow_idx, buffer, write_ok,
                 retval, next_op, phase, finalize_count, completed, goal, ended>>

\* Lines 98-100: SetInt64(..., 0) and return.
InitSetZero ==
  /\ pc = "set_0"
  /\ \E ok \in BOOLEAN :
       /\ Fault(~ok)
       /\ calls' = Append(calls, Call("SetInt64", <<0>>, ok))
       /\ checkpoint' = IF ok THEN 0 ELSE checkpoint
       /\ completed' = IF ok THEN 0 ELSE completed
       /\ InitReturns(ok, 0)
  /\ UNCHANGED <<other, log, converted, is_resume, cow_writer, cow_idx, buffer, write_ok,
                 finalize_count, goal, ended>>

(***************************************************************************)
(* The write primitives of the replay phase.                               *)
(***************************************************************************)
\* The records AddZeroBlocks asks for, for the first k extents of operation.
RECURSIVE ZeroRecords(_, _)
ZeroRecords(extents, k) ==
  IF k = 0 THEN <<>>
  ELSE Append(ZeroRecords(extents, k - 1),
              ZeroOp(extents[k].start_block, extents[k].num_blocks))

\* The loop of lines 141-144 without its return: every extent is issued.
ZeroCallsAll(extents, k, rejected) ==
  [i \in 1 .. Len(extents) |->
     [call |-> "AddZeroBlocks",
      args |-> <<extents[i].start_block, extents[i].num_blocks>>,
      ok |-> i <= k \/ i > k + 1]]

ZeroCalls(extents, k, rejected) ==
  [i \in 1 .. (IF rejected THEN k + 1 ELSE k) |->
     Call("AddZeroBlocks", <<extents[i].start_block, extents[i].num_blocks>>, i <= k)]

\* Lines 139-146.  The COW writer accepts the first k extents; when k is
\* less than their number it rejects extent k + 1 and the call returns false.
PerformZeroOrDiscardOperation ==
  /\ pc = "ready"
  /\ phase = "write"
  /\ Operations(next_op).type = "ZERO"
  /\ LET extents == Operations(next_op).dst_extents IN
     \E k \in 0 .. Len(extents) :
       LET ok == k = Len(extents) IN
       /\ Fault(~ok)
       /\ calls' = ZeroCalls(extents, k, ~ok)
       /\ log' = log \o ZeroRecords(extents, k)
       /\ retval' = Returned("PerformZeroOrDiscardOperation", ok)
       /\ phase' = ReplayAfterWrites(ok)
  /\ UNCHANGED <<other, checkpoint, converted, pc, is_resume, cow_writer, cow_idx, buffer,
                 write_ok, next_op, finalize_count, completed, goal, ended>>

\* Lines 148-153 with the operation written out as a copy of its first block.
PerformSourceCopyOperationCopies ==
  /\ pc = "ready"
  /\ phase = "write"
  /\ Operations(next_op).type = "SOURCE_COPY"
  /\ LET dst == Operations(next_op).dst_extents[1].start_block IN
     /\ calls' = <<[call |-> "AddCopy", args |-> <<dst, dst>>, ok |-> TRUE]>>
     /\ log' = Append(log, [type |-> "copy", a |-> dst, b |-> dst, data |-> <<>>])
  /\ retval' = [fn |-> "PerformSourceCopyOperation", ok |-> TRUE]
  /\ phase' = "checkpoint"
  /\ UNCHANGED <<other, checkpoint, converted, pc, is_resume, cow_writer, cow_idx, buffer,
                 write_ok, next_op, finalize_count, completed, goal, ended, faults>>

\* Lines 148-153.
PerformSourceCopyOperation ==
  /\ pc = "ready"
  /\ phase = "write"
  /\ Operations(next_op).type = "SOURCE_COPY"
  /\ calls' = <<>>
  /\ retval' = Returned("PerformSourceCopyOperation", TRUE)
  /\ phase' = ReplayAfterWrites(TRUE)
  /\ UNCHANGED <<other, checkpoint, log, converted, pc, is_resume, cow_writer, cow_idx, buffer,
                 write_ok, next_op, finalize_count, completed, goal, ended, faults>>

(***************************************************************************)
(* CheckpointUpdateProgress and Flush.                                     *)
(***************************************************************************)
\* Lines 169-171: the result of SetInt64 is dropped.
CheckpointUpdateProgress ==
  /\ pc = "ready"
  /\ phase = "checkpoint"
  /\ LET next_op_index == NextOpIndex(next_op) IN
     \E ok \in BOOLEAN :
       /\ Fault(~ok)
       /\ calls' = <<Call("SetInt64", <<next_op_index>>, ok)>>
       /\ checkpoint' = IF ok THEN next_op_index ELSE checkpoint
  /\ retval' = Returned("CheckpointUpdateProgress", TRUE)
  /\ phase' = ReplayAfterCheckpoint
  /\ UNCHANGED <<other, log, converted, pc, is_resume, cow_writer, cow_idx, buffer, write_ok,
                 next_op, finalize_count, completed, goal, ended>>

\* Line 165: the label Flush adds when the pref holds stored.
FlushLabel(stored) == stored + 1

\* Lines 155-167: GetInt64 is checked, the result of AddLabel is dropped.
Flush ==
  /\ pc = "ready"
  /\ phase = "flush"
  /\ \E get_ok \in BOOLEAN, add_ok \in BOOLEAN :
       /\ ~get_ok => add_ok
       /\ Fault(~get_ok \/ ~add_ok)
       /\ IF get_ok
          THEN /\ calls' = <<Call("GetInt64", <<>>, TRUE),
                            Call("AddLabel", <<FlushLabel(checkpoint)>>, add_ok)>>
               /\ log' = IF add_ok THEN Append(log, LabelOp(FlushLabel(checkpoint)))
                                   ELSE log
               /\ retval' = Returned("Flush", TRUE)
               /\ completed' = next_op + 1
               /\ next_op' = next_op + 1
               /\ phase' = ReplayAt(next_op + 1)
          ELSE /\ calls' = <<Call("GetInt64", <<>>, FALSE)>>
               /\ retval' = Returned("Flush", FALSE)
               /\ phase' = "stopped"
               /\ UNCHANGED <<log, completed, next_op>>
  /\ UNCHANGED <<other, checkpoint, converted, pc, is_resume, cow_writer, cow_idx, buffer,
                 write_ok, finalize_count, goal, ended>>

(***************************************************************************)
(* ~VABCPartitionWriter and a crash of the process.                        *)
(***************************************************************************)
\* Lines 173-178.  The result of SetInt64 is dropped.  cow_writer_ is null
\* when Init returned before line 63 had a writer: the call through it is
\* undefined, and the process either dies there or goes on with no
\* Finalize() having run.
Destroy ==
  /\ pc = "ready"
  /\ \E set_ok \in BOOLEAN, dies \in BOOLEAN :
       /\ dies => cow_writer = "null"
       /\ Fault(~set_ok)
       /\ calls' = <<Call("SetInt64", <<-1>>, set_ok)>>
                     \o (IF cow_writer = "open" THEN <<Call("Finalize", <<>>, TRUE)>>
                                                ELSE <<>>)
       /\ checkpoint' = IF set_ok THEN -1 ELSE checkpoint
       /\ finalize_count' = IF cow_writer = "open" THEN finalize_count + 1
                                                   ELSE finalize_count
       /\ pc' = IF dies THEN "crashed" ELSE "destroyed"
       /\ ended' = "teardown"
  /\ retval' = Returned("~VABCPartitionWriter", TRUE)
  /\ phase' = "stopped"
  /\ next_op' = 0
  /\ UNCHANGED <<other, log, converted, is_resume, cow_writer, cow_idx, buffer, write_ok,
                 completed, goal>>

\* The process dies between two collaborator calls; no destructor runs.
Crash ==
  /\ pc \in {"set_m1", "write_cow", "label0", "set_0", "ready"}
  /\ pc' = "crashed"
  /\ ended' = IF pc \in {"write_cow", "label0", "set_0"} THEN "crash_copy" ELSE "crash"
  /\ is_resume' = FALSE
  /\ cow_writer' = "null"
  /\ cow_idx' = 1
  /\ buffer' = ZeroBuffer
  /\ write_ok' = "none"
  /\ calls' = <<>>
  /\ retval' = Returned("none", TRUE)
  /\ next_op' = 0
  /\ phase' = "stopped"
  /\ finalize_count' = 0
  /\ UNCHANGED <<other, checkpoint, log, converted, completed, goal, faults>>

Next ==
  \/ InitOpen
  \/ InitSetMinusOne
  \/ WriteCowOp
  \/ InitAddLabel
  \/ InitSetZero
  \/ PerformZeroOrDiscardOperation
  \/ PerformSourceCopyOperation
  \/ CheckpointUpdateProgress
  \/ Flush
  \/ Destroy
  \/ Crash

Spec == Init /\ [][Next]_vars

(***************************************************************************)
(* Two writers in one update session.  Every VABCPartitionWriter names the *)
(* pref by the one constant kPrefsUpdateStatePartitionNextOperation, so    *)
(* the writer of another partition that was given the same prefs store     *)
(* reads and writes the value modelled by checkpoint.  The other writer is *)
(* followed only through its writes of the pref, none of which fails.      *)
(***************************************************************************)
\* Lines 57-101 on the other writer, is_resume false: it stores -1, writes
\* its copy phase to its own COW image and stores 0.
OtherInit ==
  /\ other.pc = "none"
  /\ other' = [pc |-> "ready", next_op |-> 0]
  /\ checkpoint' = 0
  /\ UNCHANGED <<log, converted, pc, is_resume, cow_writer, cow_idx, buffer, write_ok,
                 calls, retval, next_op, phase, finalize_count, completed, goal,
                 ended, faults>>

\* Lines 169-171 on the other writer, after the writes of its next operation.
OtherCheckpointUpdateProgress ==
  /\ other.pc = "ready"
  /\ other.next_op < NumOps
  /\ other' = [other EXCEPT !.next_op = NextOpIndex(other.next_op)]
  /\ checkpoint' = NextOpIndex(other.next_op)
  /\ UNCHANGED <<log, converted, pc, is_resume, cow_writer, cow_idx, buffer, write_ok,
                 calls, retval, next_op, phase, finalize_count, completed, goal,
                 ended, faults>>

\* Lines 173-178 on the other writer.
OtherDestroy ==
  /\ other.pc = "ready"
  /\ other' = [other EXCEPT !.pc = "destroyed"]
  /\ checkpoint' = -1
  /\ UNCHANGED <<log, converted, pc, is_resume, cow_writer, cow_idx, buffer, write_ok,
                 calls, retval, next_op, phase, finalize_count, completed, goal,
                 ended, faults>>

PairNext ==
  \/ Next
  \/ OtherInit
  \/ OtherCheckpointUpdateProgress
  \/ OtherDestroy

PairSpec == Init /\ [][PairNext]_vars


(***************************************************************************)
(* What the properties below speak of.                                     *)
(***************************************************************************)
Called(name) == \E i \in 1 .. Len(calls) : calls[i].call = name

Accepted(name) == \E i \in 1 .. Len(calls) : calls[i].call = name /\ calls[i].ok

Refused(name) == \E i \in 1 .. Len(calls) : calls[i].call = name /\ ~calls[i].ok

\* Init has returned and nothing was called since.
InitDone == pc = "ready" /\ retval.fn = "Init"

FlushDone == pc = "ready" /\ retval.fn = "Flush"

\* The record the copy phase owes the COW image for one primitive operation.
CopyPhaseRecord(cow_op) ==
  IF cow_op.op = "CowCopy"
  THEN [type |-> "copy", a |-> cow_op.dst_block, b |-> cow_op.src_block, data |-> <<>>]
  ELSE [type |-> "raw", a |-> cow_op.dst_block, b |-> BlockSize,
        data |-> [i \in 1 .. BlockSize |-> cow_op.src_block * BlockSize + i]]

CopyPhaseData == [i \in 1 .. Len(converted) |-> CopyPhaseRecord(converted[i])]

\* The COW image one uninterrupted bootstrap leaves.
BootstrapLog == Append(CopyPhaseData, LabelOp(0))

\* The data operation n writes.
OpData(n) ==
  IF Operations(n).type = "ZERO"
  THEN [i \in 1 .. Len(Operations(n).dst_extents) |->
          ZeroOp(Operations(n).dst_extents[i].start_block,
                 Operations(n).dst_extents[i].num_blocks)]
  ELSE <<>>

\* The data of the copy phase and of operations 0 .. n - 1.
RECURSIVE DataThrough(_)
DataThrough(n) ==
  IF n <= 0 THEN CopyPhaseData ELSE DataThrough(n - 1) \o OpData(n - 1)

\* The layout with one label after each unit: copy phase, label 0,
\* operation 0, label 1, ..., operation n - 1, label n.
RECURSIVE Layout(_)
Layout(n) ==
  IF n <= 0 THEN BootstrapLog
  ELSE Append(Layout(n - 1) \o OpData(n - 1), LabelOp(n))

IsPrefix(s, t) == Len(s) <= Len(t) /\ SubSeq(t, 1, Len(s)) = s

(***************************************************************************)
(* C1.  Resume correctness: after a bootstrap that stored 0 and any number *)
(* of operations, each closed by CheckpointUpdateProgress and Flush, and a *)
(* crash, an Init with is_resume leaves the COW image holding the copy     *)
(* phase and exactly the operations whose pair returned before the crash,  *)
(* and the pref names the first operation that is not in the image.        *)
(* Stated for the runs in which no collaborator call fails and for an Init *)
(* that returns success.                                                   *)
(***************************************************************************)
ResumeCorrectness ==
  (InitDone /\ retval.ok /\ is_resume /\ ended = "crash" /\ goal >= 0 /\ faults = 0)
    => /\ DataOf(log) = DataThrough(goal)
       /\ checkpoint = goal

(***************************************************************************)
(* C2.  Copy-phase atomicity: when the previous object crashed after Init  *)
(* stored -1 and before it stored 0, an Init with is_resume that succeeds  *)
(* has called Initialize(), never InitializeAppend, and leaves the COW     *)
(* image of one uninterrupted bootstrap.                                   *)
(***************************************************************************)
CopyPhaseAtomicity ==
  (InitDone /\ is_resume /\ ended = "crash_copy" /\ retval.ok)
    => /\ Accepted("Initialize")
       /\ ~Called("InitializeAppend")
       /\ log = BootstrapLog

(***************************************************************************)
(* C3.  When a step of the copy-phase bootstrap fails (the COW writer      *)
(* refuses AddCopy, AddRawBlocks or AddLabel(0), or the source read fails  *)
(* or is short), Init returns failure and the pref still holds -1.         *)
(***************************************************************************)
BootstrapStepFailed ==
  \/ write_ok = "false"
  \/ Refused("AddLabel")

BootstrapFailureAborts ==
  (InitDone /\ Accepted("Initialize") /\ BootstrapStepFailed)
    => /\ ~retval.ok
       /\ checkpoint = -1


(***************************************************************************)
(* C4.  Checkpoint monotonicity: after a Flush that returned success while *)
(* the pref holds n, the COW image holds label n + 1 and no label greater  *)
(* than n + 1.                                                             *)
(***************************************************************************)
CheckpointMonotonicity ==
  (FlushDone /\ retval.ok)
    => /\ HasLabel(log, checkpoint + 1)
       /\ \A l \in Labels(log) : l <= checkpoint + 1

(***************************************************************************)
(* C5.  Teardown invariants: once the destructor has run, whatever came    *)
(* before it, the pref holds -1 and Finalize() was called exactly once.    *)
(***************************************************************************)
TornDown == pc = "destroyed" \/ (pc = "crashed" /\ ended = "teardown")

TeardownInvariants ==
  TornDown => (checkpoint = -1 /\ finalize_count = 1)

(***************************************************************************)
(* C6.  An update interrupted, by a crash or by the destructor, after      *)
(* operations 0 .. N - 1 completed their pairs (N >= 1) is resumed without *)
(* redoing them: the next Init with is_resume takes the InitializeAppend   *)
(* path and the COW image keeps the copy phase and operations 0 .. N - 1.  *)
(* Stated for the runs in which no collaborator call fails and for an Init *)
(* that returns success.                                                   *)
(***************************************************************************)
ResumeKeepsCompletedWork ==
  (InitDone /\ retval.ok /\ is_resume /\ goal >= 1
     /\ ended \in {"crash", "teardown"} /\ faults = 0)
    => /\ Accepted("InitializeAppend")
       /\ ~Called("Initialize")
       /\ IsPrefix(DataThrough(goal), DataOf(log))

(***************************************************************************)
(* C7.  Label n + 1 marks the completion of operation n: when the loop     *)
(* issues the writes of operation n, then CheckpointUpdateProgress(n + 1), *)
(* then Flush(), the label that follows the data of operation n is n + 1,  *)
(* and the COW image is laid out copy phase, label 0, operation 0, label   *)
(* 1, and so on.  Stated for the runs in which no collaborator call fails  *)
(* and no object has ended yet.                                            *)
(***************************************************************************)
LabelFollowsOperation ==
  (FlushDone /\ retval.ok /\ faults = 0 /\ ended = "never")
    => /\ log # <<>>
       /\ log[Len(log)] = LabelOp(completed)
       /\ log = Layout(completed)

(***************************************************************************)
(* C8, as stated.  An Init with is_resume that finds a stored value        *)
(* c >= 0 calls InitializeAppend(c) and returns success.  Stated for a COW *)
(* image that holds label c.                                               *)
(***************************************************************************)
ResumeAppendSucceeds ==
  (InitDone /\ is_resume /\ Called("InitializeAppend") /\ HasLabel(log, checkpoint))
    => retval.ok

(***************************************************************************)
(* C8, amended.  An Init with is_resume that gets as far as reading a      *)
(* stored value c >= 0 calls InitializeAppend(c) and returns what that     *)
(* call returns; it makes no other call after reading the pref (no         *)
(* Initialize(), no conversion, no source read, no Add*, no SetInt64),     *)
(* adds no record to the COW image and leaves the pref at c.               *)
(***************************************************************************)
ResumeAppendCalls(stored, ok) ==
  <<Call("PartitionWriter::Init", <<>>, TRUE), Call("OpenCowWriter", <<>>, TRUE),
    Call("GetInt64", <<>>, TRUE), Call("InitializeAppend", <<stored>>, ok)>>

ResumeAppendOnly ==
  [][(/\ pc \in {"none", "destroyed", "crashed"}
      /\ pc' # pc
      /\ is_resume'
      /\ Accepted("GetInt64")'
      /\ checkpoint >= 0)
     => /\ InitDone'
        /\ calls' = ResumeAppendCalls(checkpoint, retval'.ok)
        /\ checkpoint' = checkpoint
        /\ IsPrefix(log', log)
        /\ buffer' = ZeroBuffer]_vars

\* An Init with is_resume has appended at a label operations had reached.
ResumeAppendReached ==
  /\ InitDone /\ is_resume /\ retval.ok
  /\ calls = ResumeAppendCalls(2, TRUE)
  /\ checkpoint = 2
  /\ HasLabel(log, 2)

(***************************************************************************)
(* C9.  In a bootstrap after which Init returns success the calls are, in  *)
(* this order: SetInt64(-1); for every primitive operation in the order    *)
(* of the conversion AddCopy(dst, src), or a read of one block at          *)
(* src * block size and AddRawBlocks(dst, bytes, block size); AddLabel(0); *)
(* SetInt64(0); and each of them succeeded.                                *)
(***************************************************************************)
CopyPhaseCalls(cow_op) ==
  IF cow_op.op = "CowCopy"
  THEN <<Call("AddCopy", <<cow_op.dst_block, cow_op.src_block>>, TRUE)>>
  ELSE <<Call("PReadAll", <<cow_op.src_block * BlockSize, BlockSize, BlockSize>>, TRUE),
         Call("AddRawBlocks",
              <<cow_op.dst_block,
                [i \in 1 .. BlockSize |-> cow_op.src_block * BlockSize + i],
                BlockSize>>, TRUE)>>

RECURSIVE AllCopyPhaseCalls(_)
AllCopyPhaseCalls(n) ==
  IF n = 0 THEN <<>> ELSE AllCopyPhaseCalls(n - 1) \o CopyPhaseCalls(converted[n])

BootstrapCalls ==
  <<Call("SetInt64", <<-1>>, TRUE), Call("ConvertToCowOperations", <<>>, TRUE)>>
    \o AllCopyPhaseCalls(Len(converted))
    \o <<Call("AddLabel", <<0>>, TRUE), Call("SetInt64", <<0>>, TRUE)>>

\* The calls made after Initialize().
AfterInitialize ==
  LET i == CHOOSE j \in 1 .. Len(calls) : calls[j].call = "Initialize"
  IN SubSeq(calls, i + 1, Len(calls))

BootstrapOrder ==
  (InitDone /\ retval.ok /\ Called("Initialize"))
    => AfterInitialize = BootstrapCalls

(***************************************************************************)
(* C10.  Flush() returns failure when GetInt64 fails and when AddLabel     *)
(* fails; when GetInt64 fails it adds no label; it returns success only if *)
(* label pref + 1 was added.                                               *)
(***************************************************************************)
FlushReportsFailure ==
  FlushDone
    => /\ Refused("GetInt64") => (~retval.ok /\ ~Called("AddLabel"))
       /\ Refused("AddLabel") => ~retval.ok
       /\ retval.ok => (Accepted("AddLabel") /\ log # <<>>
                          /\ log[Len(log)] = LabelOp(checkpoint + 1))

(***************************************************************************)
(* C11.  Every write of the pref that fails is reported by the call that   *)
(* made it (Init storing -1, Init storing 0, CheckpointUpdateProgress, the *)
(* destructor): the call returns failure and the loop makes no step that   *)
(* depends on the write, such as the Flush for that boundary.              *)
(***************************************************************************)
CheckpointWriteSurfaced ==
  ((pc = "ready" \/ TornDown) /\ Refused("SetInt64"))
    => /\ ~retval.ok
       /\ phase = "stopped"

(***************************************************************************)
(* C12.  Replace read integrity: in the iteration of WriteAllCowOps for a  *)
(* CowReplace(src, dst) the source is read at src * block size; when the   *)
(* read fails or returns fewer bytes than one block (none included),       *)
(* WriteAllCowOps returns false, AddRawBlocks is not called and the COW    *)
(* image is unchanged; AddRawBlocks is only called for dst with the        *)
(* block-size bytes of source block src, after a read that returned the    *)
(* whole block.                                                            *)
(***************************************************************************)
SourceBlock(src) == [i \in 1 .. BlockSize |-> src * BlockSize + i]

ReplaceReadIntegrity ==
  [][(/\ pc = "write_cow"
      /\ pc' \in {"write_cow", "label0"}
      /\ converted[cow_idx].op = "CowReplace")
     => LET new == SubSeq(calls', Len(calls) + 1, Len(calls'))
            src == converted[cow_idx].src_block
            dst == converted[cow_idx].dst_block
        IN
        /\ Len(new) >= 1
        /\ new[1].call = "PReadAll"
        /\ new[1].args[1] = src * BlockSize
        /\ (~new[1].ok \/ new[1].args[3] < BlockSize)
             => (Len(new) = 1 /\ write_ok' = "false" /\ log' = log)
        /\ \A i \in 1 .. Len(new) :
             new[i].call = "AddRawBlocks"
               => /\ i = 2
                  /\ new[1].ok
                  /\ new[1].args[3] = BlockSize
                  /\ new[i].args = <<dst, SourceBlock(src), BlockSize>>
        /\ log' # log => log' = Append(log, RawOp(dst, SourceBlock(src), BlockSize))]_vars

\* The second CowReplace got a short read into the buffer the first one had
\* filled: WriteAllCowOps returned false with a buffer of mixed content.
ShortReadRefused ==
  /\ pc = "label0"
  /\ write_ok = "false"
  /\ cow_idx = 2
  /\ converted[1].op = "CowReplace"
  /\ calls[Len(calls)].call = "PReadAll"
  /\ calls[Len(calls)].ok
  /\ calls[Len(calls)].args[3] = 1
  /\ buffer = <<SourceBlock(converted[2].src_block)[1], SourceBlock(converted[1].src_block)[2]>>
  /\ log = <<RawOp(converted[1].dst_block, SourceBlock(converted[1].src_block), BlockSize)>>

(***************************************************************************)
(* C13.  When Init fails before the COW writer is initialized (the plan is *)
(* null, PartitionWriter::Init fails, OpenCowWriter returns null, or with  *)
(* is_resume GetInt64 fails), it returns failure, has called neither       *)
(* Initialize() nor InitializeAppend(), has made no call after the one     *)
(* that failed, and leaves the pref and the COW image as they were.        *)
(***************************************************************************)
EarlyCalls == {"PartitionWriter::Init", "OpenCowWriter", "GetInt64"}

\* The calls of an Init stop short of initializing the COW writer.
FailedEarly(cs) ==
  \/ cs = <<>>
  \/ /\ cs[Len(cs)].call \in EarlyCalls
     /\ ~cs[Len(cs)].ok

EarlyFailureMutatesNothing ==
  [][(/\ pc \in {"none", "destroyed", "crashed"}
      /\ pc' # pc
      /\ FailedEarly(calls'))
     => /\ InitDone'
        /\ ~retval'.ok
        /\ \A i \in 1 .. Len(calls') :
             /\ calls'[i].call \in EarlyCalls
             /\ (i < Len(calls') => calls'[i].ok)
        /\ Called("GetInt64")' => is_resume'
        /\ checkpoint' = checkpoint
        /\ log' = log]_vars

\* An Init with is_resume could not read the pref of an update that had
\* reached operation 1, and returned with the image and the pref in place.
EarlyFailureReached ==
  /\ InitDone
  /\ ~retval.ok
  /\ is_resume
  /\ Refused("GetInt64")
  /\ checkpoint >= 1
  /\ HasLabel(log, 0)
  /\ ended = "crash"

(***************************************************************************)
(* C14.  PerformZeroOrDiscardOperation calls AddZeroBlocks(start_block,    *)
(* num_blocks) once for each extent of dst_extents, in their order; at the *)
(* first extent the COW writer rejects it returns false and makes no call  *)
(* for a later extent; it returns true only if every extent was accepted;  *)
(* it makes no call on the prefs store and adds no label.                  *)
(***************************************************************************)
ZeroExtentsInOrder ==
  [][(/\ pc = "ready"
      /\ phase = "write"
      /\ Operations(next_op).type = "ZERO"
      /\ retval'.fn = "PerformZeroOrDiscardOperation")
     => LET extents == Operations(next_op).dst_extents
            n == Len(calls')
        IN
        /\ n <= Len(extents)
        /\ \A i \in 1 .. n :
             /\ calls'[i].call = "AddZeroBlocks"
             /\ calls'[i].args = <<extents[i].start_block, extents[i].num_blocks>>
             /\ (i < n => calls'[i].ok)
        /\ retval'.ok <=> (n = Len(extents) /\ \A i \in 1 .. n : calls'[i].ok)
        /\ ~retval'.ok => (n >= 1 /\ ~calls'[n].ok)
        /\ log' = log \o [i \in 1 .. (IF retval'.ok THEN n ELSE n - 1) |->
                            ZeroOp(extents[i].start_block, extents[i].num_blocks)]
        /\ checkpoint' = checkpoint
        /\ Labels(log') = Labels(log)]_vars

\* The COW writer rejected the first of two extents: one call, nothing added.
ZeroExtentRejected ==
  /\ pc = "ready"
  /\ retval = Returned("PerformZeroOrDiscardOperation", FALSE)
  /\ Len(Operations(next_op).dst_extents) = 2
  /\ Len(calls) = 1
  /\ ~calls[1].ok
  /\ log = BootstrapLog

(***************************************************************************)
(* C15.  PerformSourceCopyOperation always returns true and changes        *)
(* nothing: it makes no call on the COW writer, on the source or on the    *)
(* prefs store, and leaves the COW image, its labels and the pref as they  *)
(* were.                                                                   *)
(***************************************************************************)
SourceCopyIsNoOp ==
  [][(/\ pc = "ready"
      /\ phase = "write"
      /\ Operations(next_op).type = "SOURCE_COPY"
      /\ retval'.fn = "PerformSourceCopyOperation")
     => /\ retval'.ok
        /\ calls' = <<>>
        /\ log' = log
        /\ Labels(log') = Labels(log)
        /\ checkpoint' = checkpoint
        /\ buffer' = buffer
        /\ pc' = pc]_vars

\* PerformSourceCopyOperation has returned for operation 2, after the writes
\* of operations 0 and 1.
SourceCopyReturned ==
  /\ pc = "ready"
  /\ retval = Returned("PerformSourceCopyOperation", TRUE)
  /\ next_op = 2
  /\ phase = "checkpoint"
  /\ Len(DataOf(log)) > Len(CopyPhaseData)

(***************************************************************************)
(* C16.  Whenever the pref holds c >= 0 the COW image holds label c, so    *)
(* that the InitializeAppend(c) of an Init with is_resume finds its label: *)
(* during the bootstrap, between CheckpointUpdateProgress and Flush, and   *)
(* after Flush.  Stated for the runs in which no collaborator call fails.  *)
(***************************************************************************)
CheckpointLabelPresent ==
  (checkpoint >= 0 /\ faults = 0) => HasLabel(log, checkpoint)

(***************************************************************************)
(* C17.  Label 0 means the copy phase is complete: whenever the COW image  *)
(* holds label 0, the records before it are those of every primitive       *)
(* operation ConvertToCowOperations returned, in order, none missing.      *)
(***************************************************************************)
LabelZeroMeansCopied ==
  HasLabel(log, 0)
    => SubSeq(log, 1, FirstLabelIndex(log, 0) - 1) = CopyPhaseData

(***************************************************************************)
(* C18.  WriteAllCowOps makes exactly one call on the COW writer for each  *)
(* primitive operation, in the order of the converted sequence; at the     *)
(* first one that fails (AddCopy or AddRawBlocks refused, or the source    *)
(* read failed or short) it returns false and makes no call for a later    *)
(* one; it returns true only if every one was accepted.                    *)
(***************************************************************************)
IsCowWrite(c) == c.call \in {"AddCopy", "AddRawBlocks"}

CowWrites == SelectSeq(calls, IsCowWrite)

\* WriteAllCowOps has returned and Init has not yet gone on.
WriteAllCowOpsDone == pc = "label0"

CowOpsInOrder ==
  WriteAllCowOpsDone
    => LET n == Len(CowWrites) IN
       /\ write_ok \in {"true", "false"}
       /\ n <= Len(converted)
       /\ \A i \in 1 .. n :
            /\ CowWrites[i].call =
                 (IF converted[i].op = "CowCopy" THEN "AddCopy" ELSE "AddRawBlocks")
            /\ CowWrites[i].args[1] = converted[i].dst_block
            /\ (i < n => CowWrites[i].ok)
       /\ write_ok = "true"
            <=> (n = Len(converted) /\ \A i \in 1 .. n : CowWrites[i].ok)
       /\ write_ok = "false"
            => /\ n \in {cow_idx - 1, cow_idx}
               /\ n = cow_idx => ~CowWrites[n].ok
               /\ n = cow_idx - 1 => Refused("PReadAll") \/ calls[Len(calls)].call = "PReadAll"
               /\ log = SubSeq(CopyPhaseData, 1, cow_idx - 1)
       /\ write_ok = "true" => log = CopyPhaseData

\* The first of two primitive operations was refused: WriteAllCowOps
\* returned false and made no call for the second.
CowOpsStoppedAtFirst ==
  /\ WriteAllCowOpsDone
  /\ write_ok = "false"
  /\ Len(converted) = 2
  /\ cow_idx = 1
  /\ Len(CowWrites) = 1
  /\ ~CowWrites[1].ok
  /\ log = <<>>

(***************************************************************************)
(* C19.  Labels are assigned monotonically: over any sequence of Init,     *)
(* CheckpointUpdateProgress and Flush that follows the replay loop,        *)
(* resumes included, every label added to a COW image is greater than      *)
(* every label the image already holds; no label is added twice.           *)
(***************************************************************************)
LabelsIncrease ==
  [][\A i \in (Len(log) + 1) .. Len(log') :
       (IsPrefix(log, log') /\ log'[i].type = "label")
         => \A l \in Labels(SubSeq(log', 1, i - 1)) : l < log'[i].a]_vars

(***************************************************************************)
(* C20.  Checkpoint exclusivity between partitions: while the writers of   *)
(* two partitions exist in one update session and their calls interleave,  *)
(* an Init, a CheckpointUpdateProgress or the destructor of one of them    *)
(* never changes the value the other one reads from the pref in Flush or   *)
(* in an Init with is_resume.  Stated for the steps of the other writer    *)
(* taken while this writer has returned from Init and is not destroyed.    *)
(***************************************************************************)
CheckpointExclusive ==
  [][(other' # other /\ pc = "ready") => checkpoint' = checkpoint]_vars

====
